---- MODULE Spec2Model ----
(***************************************************************************)
(* State-machine model of src/src/render/denoiser.cpp: the lifecycle of a  *)
(* Denoiser instance (constructor, destructor), the tensor overload of     *)
(* denoise(), the Bitmap overload of denoise() with its channel scan, and  *)
(* the compute stream on which the engine operations are enqueued.         *)
(***************************************************************************)
EXTENDS Integers, Sequences, FiniteSets, TLC

\* ---------------------------------------------------------------- bounds
\* Largest width and height of an image, a tensor or the instance.
MaxDim == 2
\* Longest sub-image list returned by Bitmap::split().
MaxLayers == 2
\* Number of denoise() calls issued on the instance.
MaxCalls == 2
\* Longest normals array the coordinate correction is applied to.
MaxNormals == 6
\* Largest number of shapes in a ShapeGroup.
MaxShapes == 2
\* Largest number of kernels enqueued and not yet finished.
MaxKernels == 2

\* ------------------------------------------------------------- constants
\* sizeof(float), used for the strides of an OptixImage2D.
SizeofFloat == 4
\* Channel counts of the fixed-format guide planes (Bitmap overload).
GuideChannels == 3
FlowChannels == 2

Dims == 1..MaxDim
Channels == {3, 4}
\* Names a sub-image of a multichannel Bitmap can carry, with the channel
\* count of the sub-image carrying it.
LayerKinds == {[name |-> "<root>", ch |-> 4], [name |-> "aov", ch |-> 3]}
\* Channel names a caller can pass to the Bitmap overload.
ChannelNames == {"", "<root>", "aov"}
OptixResults == {"OPTIX_SUCCESS", "OPTIX_ERROR"}

\* Storage identities: <<kind, index>>.
NULL == <<"nullptr", 0>>
ArgData(role) == <<role, 0>>
LayerData(i) == <<"layer", i>>
OutputData(call) == <<"output_data", call>>
CorrectedData == <<"corrected_normals", 0>>
JunkData == <<"indeterminate", 0>>
RootData == <<"bitmap", 0>>
HostData(call) == <<"host", call>>
StateData == <<"m_state", 0>>
ScratchData == <<"m_scratch", 0>>
HdrData == <<"m_hdr_intensity", 0>>

\* A TensorXf: storage and shape (height, width, channels).
Tensor(data, shape) == [data |-> data, shape |-> shape]
\* A null TensorXf pointer.
NullTensor == Tensor(NULL, <<0, 0, 0>>)
\* What an indeterminate read through a null TensorXf reference yields.
JunkTensor == Tensor(JunkData, <<0, 0, 0>>)

VARIABLES
    pc,                 \* position of the host thread
    err,                \* error surfaced to the caller by the last operation
    ctor_args,          \* arguments of the constructor
    m_temporal, m_options, m_denoiser,
    m_state, m_scratch, m_hdr_intensity,
    m_state_size, m_scratch_size,
    setup,              \* optixDenoiserSetup calls seen by the engine
    nrelease,           \* release calls per owned device resource
    stream,             \* operations enqueued on the CUDA stream, oldest first
    hdr_value,          \* call whose estimate last wrote *m_hdr_intensity
    invoked,            \* last retired invocation and the intensity it read
    ncalls,             \* denoise() calls started so far
    mode,               \* entry point of the current call
    img,                \* arguments of the Bitmap overload
    found,              \* locals of the channel scan
    targs,              \* arguments of the tensor overload
    normals_data,       \* contents of the storage behind the normals argument
    corrected_normals,  \* contents of the private copy of the normals
    layers, guide_layer,
    issued,             \* operations the current call has enqueued, in order
    writes,             \* storage handed to the engine as a write target
    denoised,           \* tensor returned by the tensor overload
    bitmap,             \* Bitmap returned by the Bitmap overload
    variant,            \* ShapeGroup: the variant the class is instantiated for
    m_shapes,           \* ShapeGroup: the shapes of the group
    m_embree_scene,     \* ShapeGroup: the scene handle (0: nullptr)
    rtc,                \* ShapeGroup: what Embree was asked to do
    instances,          \* ShapeGroup: instance geometries returned, oldest first
    kernels,            \* ShapeGroup: kernels enqueued and not yet finished
    gcalls              \* ShapeGroup: embree_geometry() calls started

instVars == <<ctor_args, m_temporal, m_options, m_denoiser, m_state, m_scratch, m_hdr_intensity, m_state_size, m_scratch_size, setup, nrelease>>
devVars == <<stream, hdr_value, invoked>>
callVars == <<ncalls, mode, img, found, targs, normals_data, corrected_normals, layers, guide_layer, issued, writes, denoised, bitmap>>
groupVars == <<variant, m_shapes, m_embree_scene, rtc, instances, kernels, gcalls>>
vars == <<pc, err, instVars, devVars, callVars, groupVars>>

\* ------------------------------------------------------------ no values
NoError == [kind |-> "none", channel |-> ""]
\* OptixImage2D{} (value-initialised).
ZeroImage == [data |-> NULL, width |-> 0, height |-> 0, rowStrideInBytes |-> 0, pixelStrideInBytes |-> 0, format |-> "NONE"]
\* OptixDenoiserLayer{} and OptixDenoiserGuideLayer{}.
ZeroLayers == [input |-> ZeroImage, output |-> ZeroImage, previousOutput |-> ZeroImage]
ZeroGuideLayer == [albedo |-> ZeroImage, normal |-> ZeroImage, flow |-> ZeroImage]
NoArgs == [noisy |-> NullTensor, albedo |-> NullTensor, normals |-> NullTensor, previous_denoised |-> NullTensor, flow |-> NullTensor]
NoRequest == [noisy |-> "", albedo |-> "", normals |-> "", flow |-> "", previous_denoised |-> ""]
NoImage == [multichannel |-> FALSE, width |-> 0, height |-> 0, channel_count |-> 0, res |-> <<>>, req |-> NoRequest]
NoFound == [found_albedo |-> FALSE, found_normals |-> FALSE, found_flow |-> FALSE, found_previous_denoised |-> FALSE, noisy_bmp |-> 0, albedo_bmp |-> 0, normals_bmp |-> 0, flow_bmp |-> 0, previous_denoised_bmp |-> 0]
NoBitmap == [pixel_format |-> "none", width |-> 0, height |-> 0, channel_count |-> 0, data |-> NULL]
NoInvoke == [call |-> 0, hdr |-> 0]

\* No ShapeGroup exists.
NoRtc == [scenes |-> 0, attached |-> <<>>, geoms_released |-> 0, commits |-> 0, pending_at_commit |-> 0, releases |-> 0, null_releases |-> 0, pending_at_release |-> 0]
NoShapeGroup ==
    /\ variant = "none"
    /\ m_shapes = <<>>
    /\ m_embree_scene = 0
    /\ rtc = NoRtc
    /\ instances = <<>>
    /\ kernels = 0
    /\ gcalls = 0

Init ==
    /\ pc = "start"
    /\ err = NoError
    /\ ctor_args = [input_size |-> <<0, 0>>, albedo |-> FALSE, normals |-> FALSE, temporal |-> FALSE]
    /\ m_temporal = FALSE
    /\ m_options = [guideAlbedo |-> FALSE, guideNormal |-> FALSE]
    /\ m_denoiser = "nullptr"
    /\ m_state = "unallocated"
    /\ m_scratch = "unallocated"
    /\ m_hdr_intensity = "unallocated"
    /\ m_state_size = 0
    /\ m_scratch_size = 0
    /\ setup = <<>>
    /\ nrelease = [r \in {"m_denoiser", "m_state", "m_scratch", "m_hdr_intensity"} |-> 0]
    /\ stream = <<>>
    /\ hdr_value = 0
    /\ invoked = NoInvoke
    /\ ncalls = 0
    /\ mode = "none"
    /\ img = NoImage
    /\ found = NoFound
    /\ targs = NoArgs
    /\ normals_data = <<>>
    /\ corrected_normals = <<>>
    /\ layers = ZeroLayers
    /\ guide_layer = ZeroGuideLayer
    /\ issued = <<>>
    /\ writes = {}
    /\ denoised = NullTensor
    /\ bitmap = NoBitmap
    /\ NoShapeGroup

\* ------------------------------------------------------------ the engine
\* jit_optix_check(): a result other than success aborts the caller.
jit_optix_check(rc) == rc = "OPTIX_SUCCESS"

\* optixDenoiserComputeMemoryResources(): the sizes the engine reports for a
\* resolution (opaque; only their dependence on the resolution is modelled).
ComputeMemoryResources(x, y) == [stateSizeInBytes |-> 2 * x * y, withoutOverlapScratchSizeInBytes |-> x * y]

\* ------------------------------------------------------------ constructor
\* Lines 19-36: the member initialiser, the configuration check, the engine
\* initialisation and the options.
\* Variant: the two flags of the check exchanged.
ConfigRejectedSwapped(albedo, normals) == albedo /\ ~normals

ConfigRejected(albedo, normals) == normals /\ ~albedo

Ctor_Check(size, albedo, normals, temporal) ==
    /\ pc = "start"
    /\ ctor_args' = [input_size |-> size, albedo |-> albedo, normals |-> normals, temporal |-> temporal]
    /\ m_temporal' = temporal
    /\ IF ConfigRejected(albedo, normals)
       THEN /\ pc' = "ctor_failed"
            /\ err' = [kind |-> "ConfigurationError", channel |-> ""]
            /\ UNCHANGED <<m_options, m_denoiser>>
       ELSE /\ pc' = "c_create"
            /\ m_denoiser' = "nullptr"
            /\ m_options' = [guideAlbedo |-> albedo, guideNormal |-> normals]
            /\ err' = NoError
    /\ UNCHANGED <<m_state, m_scratch, m_hdr_intensity, m_state_size, m_scratch_size, setup, nrelease>>
    /\ UNCHANGED <<devVars, callVars, groupVars>>

\* Lines 37-38: optixDenoiserCreate.
Ctor_Create(rc) ==
    /\ pc = "c_create"
    /\ IF jit_optix_check(rc)
       THEN /\ m_denoiser' = "live"
            /\ pc' = "c_query"
            /\ err' = err
       ELSE /\ m_denoiser' = m_denoiser
            /\ pc' = "ctor_failed"
            /\ err' = [kind |-> "EngineError", channel |-> ""]
    /\ UNCHANGED <<ctor_args, m_temporal, m_options, m_state, m_scratch, m_hdr_intensity, m_state_size, m_scratch_size, setup, nrelease>>
    /\ UNCHANGED <<devVars, callVars, groupVars>>

\* Lines 40-47: optixDenoiserComputeMemoryResources, then the state and
\* scratch allocations.
Ctor_Query(rc) ==
    /\ pc = "c_query"
    /\ IF jit_optix_check(rc)
       THEN LET sizes == ComputeMemoryResources(ctor_args.input_size[1], ctor_args.input_size[2])
            IN  /\ m_state_size' = sizes.stateSizeInBytes
                /\ m_state' = "allocated"
                /\ m_scratch_size' = sizes.withoutOverlapScratchSizeInBytes
                /\ m_scratch' = "allocated"
                /\ pc' = "c_setup"
                /\ err' = err
       ELSE /\ pc' = "ctor_failed"
            /\ err' = [kind |-> "EngineError", channel |-> ""]
            /\ UNCHANGED <<m_state_size, m_state, m_scratch_size, m_scratch>>
    /\ UNCHANGED <<ctor_args, m_temporal, m_options, m_denoiser, m_hdr_intensity, setup, nrelease>>
    /\ UNCHANGED <<devVars, callVars, groupVars>>

\* Variant: the result of optixDenoiserSetup is not checked.
Ctor_SetupUnchecked(rc) ==
    /\ pc = "c_setup"
    /\ setup' = IF rc = "OPTIX_SUCCESS" THEN Append(setup, [x |-> ctor_args.input_size[1], y |-> ctor_args.input_size[2], state_size |-> m_state_size, scratch_size |-> m_scratch_size]) ELSE setup
    /\ m_hdr_intensity' = "allocated"
    /\ pc' = "idle"
    /\ UNCHANGED <<err, ctor_args, m_temporal, m_options, m_denoiser, m_state, m_scratch, m_state_size, m_scratch_size, nrelease>>
    /\ UNCHANGED <<devVars, callVars, groupVars>>

\* Lines 48-51: optixDenoiserSetup, then the HDR-intensity allocation.
Ctor_Setup(rc) ==
    /\ pc = "c_setup"
    /\ IF jit_optix_check(rc)
       THEN /\ setup' = Append(setup, [x |-> ctor_args.input_size[1], y |-> ctor_args.input_size[2], state_size |-> m_state_size, scratch_size |-> m_scratch_size])
            /\ m_hdr_intensity' = "allocated"
            /\ pc' = "idle"
            /\ err' = err
       ELSE /\ pc' = "ctor_failed"
            /\ err' = [kind |-> "EngineError", channel |-> ""]
            /\ UNCHANGED <<setup, m_hdr_intensity>>
    /\ UNCHANGED <<ctor_args, m_temporal, m_options, m_denoiser, m_state, m_scratch, m_state_size, m_scratch_size, nrelease>>
    /\ UNCHANGED <<devVars, callVars, groupVars>>

\* ------------------------------------------------------------- destructor
\* Line 55: optixDenoiserDestroy; an error escaping the destructor ends the
\* process.
Dtor_Destroy(rc) ==
    /\ pc = "idle"
    /\ IF jit_optix_check(rc)
       THEN /\ m_denoiser' = "destroyed"
            /\ nrelease' = [nrelease EXCEPT !["m_denoiser"] = @ + 1]
            /\ pc' = "d_free"
            /\ err' = err
       ELSE /\ pc' = "terminated"
            /\ err' = [kind |-> "EngineError", channel |-> ""]
            /\ UNCHANGED <<m_denoiser, nrelease>>
    /\ UNCHANGED <<ctor_args, m_temporal, m_options, m_state, m_scratch, m_hdr_intensity, m_state_size, m_scratch_size, setup>>
    /\ UNCHANGED <<devVars, callVars, groupVars>>

\* Variant: the scratch buffer is not freed.
Dtor_FreeLeaksScratch ==
    /\ pc = "d_free"
    /\ m_hdr_intensity' = "freed"
    /\ m_state' = "freed"
    /\ nrelease' = [nrelease EXCEPT !["m_hdr_intensity"] = @ + 1, !["m_state"] = @ + 1]
    /\ pc' = "destroyed"
    /\ UNCHANGED <<err, ctor_args, m_temporal, m_options, m_denoiser, m_scratch, m_state_size, m_scratch_size, setup>>
    /\ UNCHANGED <<devVars, callVars, groupVars>>

\* Lines 56-58: the three jit_free calls.
Dtor_Free ==
    /\ pc = "d_free"
    /\ m_hdr_intensity' = "freed"
    /\ m_state' = "freed"
    /\ m_scratch' = "freed"
    /\ nrelease' = [nrelease EXCEPT !["m_hdr_intensity"] = @ + 1, !["m_state"] = @ + 1, !["m_scratch"] = @ + 1]
    /\ pc' = "destroyed"
    /\ UNCHANGED <<err, ctor_args, m_temporal, m_options, m_denoiser, m_state_size, m_scratch_size, setup>>
    /\ UNCHANGED <<devVars, callVars, groupVars>>

\* ---------------------------------------------------- the tensor overload
\* Lines 8-17: the OptixImage2D view of a tensor of shape (height, width,
\* channels).
optixImage2DfromTensor(tensor, pixel_format) ==
    [data |-> tensor.data,
     width |-> tensor.shape[2],
     height |-> tensor.shape[1],
     rowStrideInBytes |-> tensor.shape[2] * tensor.shape[3] * SizeofFloat,
     pixelStrideInBytes |-> tensor.shape[3] * SizeofFloat,
     format |-> pixel_format]

\* Lines 70-72.
InputPixelFormat(noisy) == IF noisy.shape[3] = 3 THEN "FLOAT3" ELSE "FLOAT4"

\* Lines 76-78: the output descriptor copies the input descriptor and points
\* at the freshly allocated output_data.
OutputLayer(input, call) == [input EXCEPT !.data = OutputData(call)]

\* Lines 61-64: the parameters of the tensor overload, by position.
DenoiseArgs(a1, a2, a3, a4, a5) == [noisy |-> a1, albedo |-> a2, normals |-> a3, previous_denoised |-> a4, flow |-> a5]

\* dr::arange(start, stop, step), as a set of zero-based indices.
Arange(start, stop, step) == {i \in start..(stop - 1) : (i - start) % step = 0}

\* dr::gather followed by dr::scatter of the negated values at idx.
NegateAt(array, idx) == [k \in 1..Len(array) |-> IF (k - 1) \in idx THEN 0 - array[k] ELSE array[k]]

\* Variant: only the X components are negated.
CorrectNormalsXOnly(array) == NegateAt(array, Arange(0, Len(array), 3))

\* Lines 103-109: negate the X components, then the Z components.
CorrectNormals(array) == NegateAt(NegateAt(array, Arange(0, Len(array), 3)), Arange(2, Len(array), 3))

\* Variant: the correction works on the caller's tensor, not on a copy.
CopyTensorShared(t) == t

\* Line 101: std::make_unique<TensorXf>(*normals), a copy with its own storage.
CopyTensor(t) == Tensor(CorrectedData, t.shape)

\* The tensors the instance's configuration makes the tensor overload read.
RequiredRoles == (IF m_options.guideAlbedo THEN {"albedo"} ELSE {}) \cup (IF m_options.guideNormal THEN {"normals"} ELSE {}) \cup (IF m_temporal THEN {"previous_denoised", "flow"} ELSE {})

\* Some tensor the overload reads is a null pointer: the read is undefined.
ReadsNull == \E r \in RequiredRoles : targs[r] = NullTensor

\* What *p yields: the tensor, or an indeterminate one through a null p.
Deref(t) == IF t = NullTensor THEN JunkTensor ELSE t

\* The contents of a caller's tensor (only the normals are tracked).
Pattern(n) == [k \in 1..n |-> k]

\* A call of the tensor overload by the caller, who supplies every tensor
\* the configuration requires and possibly others.
TensorCall(h, w, c, supplied) ==
    /\ pc = "idle"
    /\ ncalls < MaxCalls
    /\ RequiredRoles \subseteq supplied
    /\ ncalls' = ncalls + 1
    /\ mode' = "tensor"
    /\ img' = NoImage
    /\ found' = NoFound
    /\ targs' = DenoiseArgs(Tensor(ArgData("noisy"), <<h, w, c>>),
                            IF "albedo" \in supplied THEN Tensor(ArgData("albedo"), <<h, w, 3>>) ELSE NullTensor,
                            IF "normals" \in supplied THEN Tensor(ArgData("normals"), <<h, w, 3>>) ELSE NullTensor,
                            IF "previous_denoised" \in supplied THEN Tensor(ArgData("previous_denoised"), <<h, w, c>>) ELSE NullTensor,
                            IF "flow" \in supplied THEN Tensor(ArgData("flow"), <<h, w, 2>>) ELSE NullTensor)
    /\ normals_data' = IF "normals" \in supplied THEN Pattern(h * w * 3) ELSE <<>>
    /\ corrected_normals' = <<>>
    /\ layers' = ZeroLayers
    /\ guide_layer' = ZeroGuideLayer
    /\ issued' = <<>>
    /\ writes' = {}
    /\ denoised' = NullTensor
    /\ bitmap' = NoBitmap
    /\ err' = NoError
    /\ pc' = "t_intensity"
    /\ UNCHANGED <<instVars, groupVars, devVars>>

\* Lines 85-87: the buffers and sizes passed to optixDenoiserComputeIntensity.
IntensityBuffers == [hdr |-> m_hdr_intensity, scratch |-> m_scratch, scratch_size |-> m_scratch_size]
\* Lines 83 and 122-124: the buffers and sizes passed to optixDenoiserInvoke.
InvokeBuffers == [hdr |-> m_hdr_intensity, state |-> m_state, state_size |-> m_state_size, scratch |-> m_scratch, scratch_size |-> m_scratch_size]

\* Variant: the estimate is given the size of the state buffer for its scratch.
T_IntensityWrongSize(rc) ==
    /\ pc = "t_intensity"
    /\ LET input == optixImage2DfromTensor(targs.noisy, InputPixelFormat(targs.noisy))
       IN  layers' = [layers EXCEPT !.input = input, !.output = OutputLayer(input, ncalls)]
    /\ IF jit_optix_check(rc)
       THEN /\ stream' = Append(stream, [op |-> "intensity", call |-> ncalls, buffers |-> [IntensityBuffers EXCEPT !.scratch_size = m_state_size]])
            /\ issued' = Append(issued, "intensity")
            /\ writes' = writes \cup {HdrData, ScratchData}
            /\ pc' = "t_invoke"
            /\ err' = err
       ELSE /\ pc' = "returned"
            /\ err' = [kind |-> "EngineError", channel |-> ""]
            /\ UNCHANGED <<stream, issued, writes>>
    /\ UNCHANGED <<instVars, groupVars, hdr_value, invoked>>
    /\ UNCHANGED <<ncalls, mode, img, found, targs, normals_data, corrected_normals, guide_layer, denoised, bitmap>>

\* Variant: the result of optixDenoiserComputeIntensity is not checked.
T_IntensityUnchecked(rc) ==
    /\ pc = "t_intensity"
    /\ LET input == optixImage2DfromTensor(targs.noisy, InputPixelFormat(targs.noisy))
       IN  layers' = [layers EXCEPT !.input = input, !.output = OutputLayer(input, ncalls)]
    /\ IF rc = "OPTIX_SUCCESS"
       THEN /\ stream' = Append(stream, [op |-> "intensity", call |-> ncalls, buffers |-> IntensityBuffers])
            /\ issued' = Append(issued, "intensity")
            /\ writes' = writes \cup {HdrData, ScratchData}
       ELSE UNCHANGED <<stream, issued, writes>>
    /\ pc' = "t_invoke"
    /\ UNCHANGED <<err, instVars, groupVars, hdr_value, invoked>>
    /\ UNCHANGED <<ncalls, mode, img, found, targs, normals_data, corrected_normals, guide_layer, denoised, bitmap>>

\* Lines 69-89: the input and output descriptors and the intensity estimate.
T_Intensity(rc) ==
    /\ pc = "t_intensity"
    /\ LET input == optixImage2DfromTensor(targs.noisy, InputPixelFormat(targs.noisy))
       IN  layers' = [layers EXCEPT !.input = input, !.output = OutputLayer(input, ncalls)]
    /\ IF jit_optix_check(rc)
       THEN /\ stream' = Append(stream, [op |-> "intensity", call |-> ncalls, buffers |-> IntensityBuffers])
            /\ issued' = Append(issued, "intensity")
            /\ writes' = writes \cup {HdrData, ScratchData}
            /\ pc' = "t_invoke"
            /\ err' = err
       ELSE /\ pc' = "returned"
            /\ err' = [kind |-> "EngineError", channel |-> ""]
            /\ UNCHANGED <<stream, issued, writes>>
    /\ UNCHANGED <<instVars, groupVars, hdr_value, invoked>>
    /\ UNCHANGED <<ncalls, mode, img, found, targs, normals_data, corrected_normals, guide_layer, denoised, bitmap>>

\* Variant: a guide layer is filled whenever its tensor was passed, whatever
\* the configuration.
T_InvokeByArguments(rc, ub) ==
    /\ pc = "t_invoke"
    /\ IF ReadsNull /\ ub = "crash"
       THEN /\ pc' = "crashed"
            /\ UNCHANGED <<err, stream, issued, writes, normals_data, corrected_normals, layers, guide_layer>>
       ELSE LET copy == CopyTensor(Deref(targs.normals))
                fmt == InputPixelFormat(targs.noisy)
            IN  /\ guide_layer' =
                     [albedo |-> IF targs.albedo # NullTensor THEN optixImage2DfromTensor(Deref(targs.albedo), "FLOAT3") ELSE ZeroImage,
                      normal |-> IF targs.normals # NullTensor THEN optixImage2DfromTensor(copy, "FLOAT3") ELSE ZeroImage,
                      flow |-> IF targs.flow # NullTensor THEN optixImage2DfromTensor(Deref(targs.flow), "FLOAT2") ELSE ZeroImage]
                /\ layers' = [layers EXCEPT !.previousOutput = IF targs.previous_denoised # NullTensor THEN optixImage2DfromTensor(Deref(targs.previous_denoised), fmt) ELSE ZeroImage]
                /\ IF ~m_options.guideNormal
                   THEN UNCHANGED <<normals_data, corrected_normals>>
                   ELSE IF copy.data = CorrectedData
                   THEN /\ corrected_normals' = CorrectNormals(normals_data)
                        /\ normals_data' = normals_data
                   ELSE /\ normals_data' = CorrectNormals(normals_data)
                        /\ corrected_normals' = corrected_normals
                /\ IF jit_optix_check(rc)
                   THEN /\ stream' = Append(stream, [op |-> "invoke", call |-> ncalls, buffers |-> InvokeBuffers])
                        /\ issued' = Append(issued, "invoke")
                        /\ writes' = writes \cup {layers.output.data, StateData, ScratchData}
                        /\ pc' = "t_return"
                        /\ err' = err
                   ELSE /\ pc' = "returned"
                        /\ err' = [kind |-> "EngineError", channel |-> ""]
                        /\ UNCHANGED <<stream, issued, writes>>
    /\ UNCHANGED <<instVars, groupVars, hdr_value, invoked>>
    /\ UNCHANGED <<ncalls, mode, img, found, targs, denoised, bitmap>>

\* Lines 91-124: the guide layers, the normal correction and the invocation.
\* A read through a null tensor pointer either ends the process or yields an
\* indeterminate tensor.
T_Invoke(rc, ub) ==
    /\ pc = "t_invoke"
    /\ IF ReadsNull /\ ub = "crash"
       THEN /\ pc' = "crashed"
            /\ UNCHANGED <<err, stream, issued, writes, normals_data, corrected_normals, layers, guide_layer>>
       ELSE LET copy == CopyTensor(Deref(targs.normals))
                fmt == InputPixelFormat(targs.noisy)
            IN  /\ guide_layer' =
                     [albedo |-> IF m_options.guideAlbedo THEN optixImage2DfromTensor(Deref(targs.albedo), "FLOAT3") ELSE ZeroImage,
                      normal |-> IF m_options.guideNormal THEN optixImage2DfromTensor(copy, "FLOAT3") ELSE ZeroImage,
                      flow |-> IF m_temporal THEN optixImage2DfromTensor(Deref(targs.flow), "FLOAT2") ELSE ZeroImage]
                /\ layers' = [layers EXCEPT !.previousOutput = IF m_temporal THEN optixImage2DfromTensor(Deref(targs.previous_denoised), fmt) ELSE ZeroImage]
                /\ IF ~m_options.guideNormal
                   THEN UNCHANGED <<normals_data, corrected_normals>>
                   ELSE IF copy.data = CorrectedData
                   THEN /\ corrected_normals' = CorrectNormals(normals_data)
                        /\ normals_data' = normals_data
                   ELSE /\ normals_data' = CorrectNormals(normals_data)
                        /\ corrected_normals' = corrected_normals
                /\ IF jit_optix_check(rc)
                   THEN /\ stream' = Append(stream, [op |-> "invoke", call |-> ncalls, buffers |-> InvokeBuffers])
                        /\ issued' = Append(issued, "invoke")
                        /\ writes' = writes \cup {layers.output.data, StateData, ScratchData}
                        /\ pc' = "t_return"
                        /\ err' = err
                   ELSE /\ pc' = "returned"
                        /\ err' = [kind |-> "EngineError", channel |-> ""]
                        /\ UNCHANGED <<stream, issued, writes>>
    /\ UNCHANGED <<instVars, groupVars, hdr_value, invoked>>
    /\ UNCHANGED <<ncalls, mode, img, found, targs, denoised, bitmap>>

\* Variant: width and height exchanged in the returned shape.
ReturnedTensorSwapped(noisy, call) == Tensor(OutputData(call), <<noisy.shape[2], noisy.shape[1], noisy.shape[3]>>)

\* Lines 126-127: the returned tensor wraps output_data with the shape of
\* noisy.
ReturnedTensor(noisy, call) == Tensor(OutputData(call), <<noisy.shape[1], noisy.shape[2], noisy.shape[3]>>)

T_Return ==
    /\ pc = "t_return"
    /\ denoised' = ReturnedTensor(targs.noisy, ncalls)
    /\ pc' = IF mode = "tensor" THEN "returned" ELSE "b_migrate"
    /\ UNCHANGED <<err, instVars, groupVars, devVars>>
    /\ UNCHANGED <<ncalls, mode, img, found, targs, normals_data, corrected_normals, layers, guide_layer, issued, writes, bitmap>>

\* ------------------------------------------------------------- the stream
\* Variant: the stream retires the newest operation first.
RetireNewestFirst ==
    /\ stream # <<>>
    /\ LET last == stream[Len(stream)]
       IN  /\ hdr_value' = IF last.op = "intensity" THEN last.call ELSE hdr_value
           /\ invoked' = IF last.op = "invoke" THEN [call |-> last.call, hdr |-> hdr_value] ELSE invoked
    /\ stream' = SubSeq(stream, 1, Len(stream) - 1)
    /\ UNCHANGED <<pc, err, instVars, groupVars, callVars>>

\* The oldest enqueued operation retires: an estimate writes the intensity
\* scalar, an invocation reads it.
Retire ==
    /\ stream # <<>>
    /\ LET head == Head(stream)
       IN  /\ hdr_value' = IF head.op = "intensity" THEN head.call ELSE hdr_value
           /\ invoked' = IF head.op = "invoke" THEN [call |-> head.call, hdr |-> hdr_value] ELSE invoked
    /\ stream' = Tail(stream)
    /\ UNCHANGED <<pc, err, instVars, groupVars, callVars>>

\* ---------------------------------------------------- the Bitmap overload
\* Lines 153-162: the locals of the scan before the first entry.
ScanInit(req) ==
    [found_albedo |-> req.albedo = "",
     found_normals |-> req.normals = "",
     found_flow |-> req.flow = "",
     found_previous_denoised |-> req.previous_denoised = "",
     noisy_bmp |-> 0, albedo_bmp |-> 0, normals_bmp |-> 0, flow_bmp |-> 0, previous_denoised_bmp |-> 0]

\* Variant: the break does not wait for the noisy channel.
ScanCompleteWithoutNoisy(st) == st.found_albedo /\ st.found_normals /\ st.found_flow /\ st.found_previous_denoised

\* Lines 166-167: the condition of the early break.
ScanComplete(st) == st.found_albedo /\ st.found_normals /\ st.found_flow /\ st.found_previous_denoised /\ st.noisy_bmp # 0

\* Variant: a later entry of the same name replaces the first match.
ScanEntryLastMatch(st, name, i, req) ==
    [found_albedo |-> st.found_albedo \/ name = req.albedo,
     albedo_bmp |-> IF name = req.albedo /\ req.albedo # "" THEN i ELSE st.albedo_bmp,
     found_normals |-> st.found_normals \/ name = req.normals,
     normals_bmp |-> IF name = req.normals /\ req.normals # "" THEN i ELSE st.normals_bmp,
     found_flow |-> st.found_flow \/ name = req.flow,
     flow_bmp |-> IF name = req.flow /\ req.flow # "" THEN i ELSE st.flow_bmp,
     found_previous_denoised |-> st.found_previous_denoised \/ name = req.previous_denoised,
     previous_denoised_bmp |-> IF name = req.previous_denoised /\ req.previous_denoised # "" THEN i ELSE st.previous_denoised_bmp,
     noisy_bmp |-> IF name = req.noisy THEN i ELSE st.noisy_bmp]

\* Lines 169-186: the body of the loop for entry i, named name.
ScanEntry(st, name, i, req) ==
    [found_albedo |-> st.found_albedo \/ name = req.albedo,
     albedo_bmp |-> IF ~st.found_albedo /\ name = req.albedo THEN i ELSE st.albedo_bmp,
     found_normals |-> st.found_normals \/ name = req.normals,
     normals_bmp |-> IF ~st.found_normals /\ name = req.normals THEN i ELSE st.normals_bmp,
     found_flow |-> st.found_flow \/ name = req.flow,
     flow_bmp |-> IF ~st.found_flow /\ name = req.flow THEN i ELSE st.flow_bmp,
     found_previous_denoised |-> st.found_previous_denoised \/ name = req.previous_denoised,
     previous_denoised_bmp |-> IF ~st.found_previous_denoised /\ name = req.previous_denoised THEN i ELSE st.previous_denoised_bmp,
     noisy_bmp |-> IF st.noisy_bmp = 0 /\ name = req.noisy THEN i ELSE st.noisy_bmp]

\* Lines 165-187: the loop over the entries of res from entry i on.
RECURSIVE ScanLoop(_, _, _, _)
ScanLoop(res, req, i, st) ==
    IF i > Len(res) THEN st
    ELSE IF ScanComplete(st) THEN st
    ELSE ScanLoop(res, req, i + 1, ScanEntry(st, res[i].name, i, req))

\* Lines 164-187.
Scan(res, req) == ScanLoop(res, req, 1, ScanInit(req))

\* Variant: the check of the flow channel is left out.
MissingChannelSkipsFlow(st, req) ==
    IF st.noisy_bmp = 0 THEN [missing |-> TRUE, channel |-> req.noisy]
    ELSE IF ~st.found_albedo THEN [missing |-> TRUE, channel |-> req.albedo]
    ELSE IF ~st.found_normals THEN [missing |-> TRUE, channel |-> req.normals]
    ELSE IF ~st.found_previous_denoised THEN [missing |-> TRUE, channel |-> req.previous_denoised]
    ELSE [missing |-> FALSE, channel |-> ""]

\* Lines 189-202: the first missing channel, in the order of the checks.
MissingChannel(st, req) ==
    IF st.noisy_bmp = 0 THEN [missing |-> TRUE, channel |-> req.noisy]
    ELSE IF ~st.found_albedo THEN [missing |-> TRUE, channel |-> req.albedo]
    ELSE IF ~st.found_normals THEN [missing |-> TRUE, channel |-> req.normals]
    ELSE IF ~st.found_flow THEN [missing |-> TRUE, channel |-> req.flow]
    ELSE IF ~st.found_previous_denoised THEN [missing |-> TRUE, channel |-> req.previous_denoised]
    ELSE [missing |-> FALSE, channel |-> ""]

\* Lines 207-228: the tensor built over a located sub-image, or a null
\* pointer.
LayerTensor(bmp, shape) == IF bmp # 0 THEN Tensor(LayerData(bmp), shape) ELSE NullTensor

\* Lines 204-232: the tensors built from the located sub-images and the
\* call of the tensor overload, with the arguments in the order written.
Delegation(image, st) ==
    LET noisy_tensor_shape == <<image.height, image.width, image.res[st.noisy_bmp].ch>>
        noisy_tensor == Tensor(LayerData(st.noisy_bmp), noisy_tensor_shape)
        albedo_tensor == LayerTensor(st.albedo_bmp, <<image.height, image.width, GuideChannels>>)
        normals_tensor == LayerTensor(st.normals_bmp, <<image.height, image.width, GuideChannels>>)
        flow_tensor == LayerTensor(st.flow_bmp, <<image.height, image.width, FlowChannels>>)
        previous_denoised_tensor == LayerTensor(st.previous_denoised_bmp, noisy_tensor_shape)
    IN  DenoiseArgs(noisy_tensor, albedo_tensor, normals_tensor, flow_tensor, previous_denoised_tensor)

\* Sub-image lists Bitmap::split() can return for a multichannel Bitmap.
RECURSIVE SeqsUpTo(_, _)
SeqsUpTo(S, n) == IF n = 0 THEN {<<>>} ELSE LET shorter == SeqsUpTo(S, n - 1) IN shorter \cup {Append(q, x) : q \in shorter, x \in S}
SplitResults == SeqsUpTo(LayerKinds, MaxLayers) \ {<<>>}
Requests == [noisy : ChannelNames, albedo : ChannelNames, normals : ChannelNames, flow : ChannelNames, previous_denoised : ChannelNames]

RECURSIVE SumChannels(_)
SumChannels(res) == IF res = <<>> THEN 0 ELSE Head(res).ch + SumChannels(Tail(res))

\* Lines 135-140: the Bitmap is not multichannel; it is the noisy tensor and
\* every other argument of the tensor overload is null.
B_Simple(w, h, c) ==
    /\ pc = "idle"
    /\ ncalls < MaxCalls
    /\ ncalls' = ncalls + 1
    /\ mode' = "simple"
    /\ img' = [multichannel |-> FALSE, width |-> w, height |-> h, channel_count |-> c, res |-> <<>>, req |-> NoRequest]
    /\ found' = NoFound
    /\ targs' = DenoiseArgs(Tensor(RootData, <<h, w, c>>), NullTensor, NullTensor, NullTensor, NullTensor)
    /\ normals_data' = <<>>
    /\ corrected_normals' = <<>>
    /\ layers' = ZeroLayers
    /\ guide_layer' = ZeroGuideLayer
    /\ issued' = <<>>
    /\ writes' = {}
    /\ denoised' = NullTensor
    /\ bitmap' = NoBitmap
    /\ err' = NoError
    /\ pc' = "t_intensity"
    /\ UNCHANGED <<instVars, groupVars, devVars>>

\* Lines 135-137 and 153-232: the Bitmap is multichannel; the scan, the
\* missing-channel checks and the delegation to the tensor overload.
B_Structured(w, h, res, req) ==
    /\ pc = "idle"
    /\ ncalls < MaxCalls
    /\ ncalls' = ncalls + 1
    /\ mode' = "structured"
    /\ img' = [multichannel |-> TRUE, width |-> w, height |-> h, channel_count |-> SumChannels(res), res |-> res, req |-> req]
    /\ LET st == Scan(res, req)
           miss == MissingChannel(st, req)
       IN  /\ found' = st
           /\ IF miss.missing
              THEN /\ err' = [kind |-> "MissingChannel", channel |-> miss.channel]
                   /\ targs' = NoArgs
                   /\ normals_data' = <<>>
                   /\ pc' = "returned"
              ELSE /\ err' = NoError
                   /\ targs' = Delegation(img', st)
                   /\ normals_data' = IF targs'.normals # NullTensor THEN Pattern(h * w * GuideChannels) ELSE <<>>
                   /\ pc' = "t_intensity"
    /\ corrected_normals' = <<>>
    /\ layers' = ZeroLayers
    /\ guide_layer' = ZeroGuideLayer
    /\ issued' = <<>>
    /\ writes' = {}
    /\ denoised' = NullTensor
    /\ bitmap' = NoBitmap
    /\ UNCHANGED <<instVars, groupVars, devVars>>

\* Lines 142-143 and 234-235: jit_malloc_migrate(..., AllocType::Host, false)
\* enqueues the copy of the result to host memory.
B_Migrate ==
    /\ pc = "b_migrate"
    /\ stream' = Append(stream, [op |-> "migrate", call |-> ncalls])
    /\ issued' = Append(issued, "migrate")
    /\ pc' = "b_sync"
    /\ UNCHANGED <<err, instVars, groupVars, hdr_value, invoked>>
    /\ UNCHANGED <<ncalls, mode, img, found, targs, normals_data, corrected_normals, layers, guide_layer, writes, denoised, bitmap>>

\* Variant: the host does not wait for the stream.
jit_sync_thread_NoWait(s) == TRUE

\* Lines 144 and 236: jit_sync_thread() returns once every operation
\* enqueued on the stream has retired.
jit_sync_thread(s) == s = <<>>

\* Variant: width and height exchanged in the size of the Bitmap.
NewBitmapTransposed(t, data) ==
    [pixel_format |-> IF t.shape[3] = 3 THEN "RGB" ELSE "RGBA",
     width |-> t.shape[1],
     height |-> t.shape[2],
     channel_count |-> t.shape[3],
     data |-> data]

\* Lines 146-150 and 238-242: the Bitmap wrapping the migrated host buffer.
NewBitmap(t, data) ==
    [pixel_format |-> IF t.shape[3] = 3 THEN "RGB" ELSE "RGBA",
     width |-> t.shape[2],
     height |-> t.shape[1],
     channel_count |-> t.shape[3],
     data |-> data]

\* Lines 144-150 and 236-242.
B_Sync ==
    /\ pc = "b_sync"
    /\ jit_sync_thread(stream)
    /\ bitmap' = NewBitmap(denoised, HostData(ncalls))
    /\ pc' = "returned"
    /\ UNCHANGED <<err, instVars, groupVars, devVars>>
    /\ UNCHANGED <<ncalls, mode, img, found, targs, normals_data, corrected_normals, layers, guide_layer, issued, writes, denoised>>

\* Lines 128 and 243: the call is over; its arguments, locals and result go
\* out of scope and the caller goes on.
CallEnds ==
    /\ pc = "returned"
    /\ pc' = "idle"
    /\ err' = NoError
    /\ mode' = "none"
    /\ img' = NoImage
    /\ found' = NoFound
    /\ targs' = NoArgs
    /\ normals_data' = <<>>
    /\ corrected_normals' = <<>>
    /\ layers' = ZeroLayers
    /\ guide_layer' = ZeroGuideLayer
    /\ issued' = <<>>
    /\ writes' = {}
    /\ denoised' = NullTensor
    /\ bitmap' = NoBitmap
    /\ UNCHANGED <<ncalls, instVars, groupVars, devVars>>

\* ----------------------------------------------------- the specifications
\* Resolutions: images one row high, up to MaxDim wide, as <<x, y>>.
Sizes == {<<w, 1>> : w \in Dims}
Roles == {"albedo", "normals", "previous_denoised", "flow"}
\* The resolution the instance is built for.
InstanceSizes == {<<MaxDim, 1>>}
\* Sub-image lists in which every name occurs once, as Bitmap::split()
\* builds them.
UniqueSplits == {res \in SplitResults : \A i \in 1..Len(res), j \in 1..Len(res) : res[i].name = res[j].name => i = j}
\* The channel names drawn while the lifecycle is explored.
LifecycleRequests == [noisy : {"<root>"}, albedo : {"", "aov"}, normals : {"", "aov"}, flow : {"", "aov"}, previous_denoised : {"", "<root>"}]

\* The instance from construction to teardown, with calls of both overloads.
Next ==
    \/ \E size \in InstanceSizes, albedo \in BOOLEAN, normals \in BOOLEAN, temporal \in BOOLEAN : Ctor_Check(size, albedo, normals, temporal)
    \/ \E rc \in OptixResults : Ctor_Create(rc)
    \/ \E rc \in OptixResults : Ctor_Query(rc)
    \/ \E rc \in OptixResults : Ctor_Setup(rc)
    \/ pc = "idle" /\ \E size \in Sizes, c \in Channels, supplied \in SUBSET Roles : TensorCall(size[2], size[1], c, supplied)
    \/ \E rc \in OptixResults : T_Intensity(rc)
    \/ \E rc \in OptixResults, ub \in {"crash", "indeterminate"} : T_Invoke(rc, ub)
    \/ T_Return
    \/ pc = "idle" /\ \E size \in Sizes, c \in Channels : B_Simple(size[1], size[2], c)
    \/ pc = "idle" /\ \E size \in Sizes, res \in UniqueSplits, req \in LifecycleRequests : B_Structured(size[1], size[2], res, req)
    \/ B_Migrate
    \/ B_Sync
    \/ CallEnds
    \/ Retire
    \/ \E rc \in OptixResults : Dtor_Destroy(rc)
    \/ Dtor_Free

Spec == Init /\ [][Next]_vars

\* Structured calls of the Bitmap overload on an instance without guides, of
\* one resolution, with every combination of channel names.
ScanNext ==
    \/ Ctor_Check(<<1, 1>>, FALSE, FALSE, FALSE)
    \/ \E rc \in OptixResults : Ctor_Create(rc)
    \/ \E rc \in OptixResults : Ctor_Query(rc)
    \/ \E rc \in OptixResults : Ctor_Setup(rc)
    \/ pc = "idle" /\ \E res \in SplitResults, req \in Requests : B_Structured(1, 1, res, req)
    \/ \E rc \in OptixResults : T_Intensity(rc)
    \/ \E rc \in OptixResults, ub \in {"crash", "indeterminate"} : T_Invoke(rc, ub)
    \/ T_Return
    \/ B_Migrate
    \/ B_Sync
    \/ CallEnds
    \/ Retire

ScanSpec == Init /\ [][ScanNext]_vars

\* The coordinate correction alone, on normals arrays of every length up to
\* MaxNormals: the values a caller's tensor can hold, the correction of lines
\* 101-109 applied to them, and the correction applied to its own result.
NormalValues == {-1, 0, 2}
NormalArrays == SeqsUpTo(NormalValues, MaxNormals)

NormalsInit ==
    /\ err = NoError
    /\ ctor_args = [input_size |-> <<0, 0>>, albedo |-> FALSE, normals |-> FALSE, temporal |-> FALSE]
    /\ m_temporal = FALSE
    /\ m_options = [guideAlbedo |-> FALSE, guideNormal |-> FALSE]
    /\ m_denoiser = "nullptr"
    /\ m_state = "unallocated"
    /\ m_scratch = "unallocated"
    /\ m_hdr_intensity = "unallocated"
    /\ m_state_size = 0
    /\ m_scratch_size = 0
    /\ setup = <<>>
    /\ nrelease = [r \in {"m_denoiser", "m_state", "m_scratch", "m_hdr_intensity"} |-> 0]
    /\ stream = <<>>
    /\ hdr_value = 0
    /\ invoked = NoInvoke
    /\ ncalls = 0
    /\ mode = "none"
    /\ img = NoImage
    /\ found = NoFound
    /\ targs = NoArgs
    /\ corrected_normals = <<>>
    /\ layers = ZeroLayers
    /\ guide_layer = ZeroGuideLayer
    /\ issued = <<>>
    /\ writes = {}
    /\ denoised = NullTensor
    /\ bitmap = NoBitmap
    /\ NoShapeGroup
    /\ pc = "n_input"
    /\ normals_data \in NormalArrays

N_Correct ==
    /\ pc = "n_input"
    /\ corrected_normals' = CorrectNormals(normals_data)
    /\ pc' = "n_once"
    /\ UNCHANGED <<err, instVars, groupVars, devVars>>
    /\ UNCHANGED <<ncalls, mode, img, found, targs, normals_data, layers, guide_layer, issued, writes, denoised, bitmap>>

N_CorrectAgain ==
    /\ pc = "n_once"
    /\ corrected_normals' = CorrectNormals(corrected_normals)
    /\ pc' = "n_twice"
    /\ UNCHANGED <<err, instVars, groupVars, devVars>>
    /\ UNCHANGED <<ncalls, mode, img, found, targs, normals_data, layers, guide_layer, issued, writes, denoised, bitmap>>

NormalsNext == N_Correct \/ N_CorrectAgain

NormalsSpec == NormalsInit /\ [][NormalsNext]_vars

\* Two host threads calling the tensor overload on one constructed instance
\* without guides; they share the instance and the stream. Here pc, err,
\* ncalls (the number of the call a thread is in), mode, targs, layers,
\* guide_layer and denoised hold one value per thread, and issued is the log
\* of the operations enqueued by all calls.
Threads == {1, 2}
EachThread(v) == [t \in Threads |-> v]
CallsStarted == IF ncalls[1] > ncalls[2] THEN ncalls[1] ELSE ncalls[2]

RaceInit ==
    /\ pc = EachThread("idle")
    /\ err = EachThread(NoError)
    /\ ctor_args = [input_size |-> <<MaxDim, 1>>, albedo |-> FALSE, normals |-> FALSE, temporal |-> FALSE]
    /\ m_temporal = FALSE
    /\ m_options = [guideAlbedo |-> FALSE, guideNormal |-> FALSE]
    /\ m_denoiser = "live"
    /\ m_state = "allocated"
    /\ m_scratch = "allocated"
    /\ m_hdr_intensity = "allocated"
    /\ m_state_size = ComputeMemoryResources(MaxDim, 1).stateSizeInBytes
    /\ m_scratch_size = ComputeMemoryResources(MaxDim, 1).withoutOverlapScratchSizeInBytes
    /\ setup = <<[x |-> MaxDim, y |-> 1, state_size |-> m_state_size, scratch_size |-> m_scratch_size]>>
    /\ nrelease = [r \in {"m_denoiser", "m_state", "m_scratch", "m_hdr_intensity"} |-> 0]
    /\ stream = <<>>
    /\ hdr_value = 0
    /\ invoked = NoInvoke
    /\ ncalls = EachThread(0)
    /\ mode = EachThread("none")
    /\ img = NoImage
    /\ found = NoFound
    /\ targs = EachThread(NoArgs)
    /\ normals_data = <<>>
    /\ corrected_normals = <<>>
    /\ layers = EachThread(ZeroLayers)
    /\ guide_layer = EachThread(ZeroGuideLayer)
    /\ issued = <<>>
    /\ writes = {}
    /\ denoised = EachThread(NullTensor)
    /\ bitmap = NoBitmap
    /\ NoShapeGroup

\* Variant: a call waits until no other call is inside denoise().
R_CallLocked(t, h, w, c) ==
    /\ pc[t] = "idle"
    /\ \A u \in Threads \ {t} : pc[u] = "idle"
    /\ CallsStarted < MaxCalls
    /\ ncalls' = [ncalls EXCEPT ![t] = CallsStarted + 1]
    /\ mode' = [mode EXCEPT ![t] = "tensor"]
    /\ targs' = [targs EXCEPT ![t] = DenoiseArgs(Tensor(ArgData("noisy"), <<h, w, c>>), NullTensor, NullTensor, NullTensor, NullTensor)]
    /\ layers' = [layers EXCEPT ![t] = ZeroLayers]
    /\ guide_layer' = [guide_layer EXCEPT ![t] = ZeroGuideLayer]
    /\ denoised' = [denoised EXCEPT ![t] = NullTensor]
    /\ err' = [err EXCEPT ![t] = NoError]
    /\ pc' = [pc EXCEPT ![t] = "t_intensity"]
    /\ UNCHANGED <<instVars, groupVars, devVars, img, found, normals_data, corrected_normals, issued, writes, bitmap>>

\* Lines 61-64: thread t enters the tensor overload; nothing in the instance
\* makes it wait for a call of another thread.
R_Call(t, h, w, c) ==
    /\ pc[t] = "idle"
    /\ CallsStarted < MaxCalls
    /\ ncalls' = [ncalls EXCEPT ![t] = CallsStarted + 1]
    /\ mode' = [mode EXCEPT ![t] = "tensor"]
    /\ targs' = [targs EXCEPT ![t] = DenoiseArgs(Tensor(ArgData("noisy"), <<h, w, c>>), NullTensor, NullTensor, NullTensor, NullTensor)]
    /\ layers' = [layers EXCEPT ![t] = ZeroLayers]
    /\ guide_layer' = [guide_layer EXCEPT ![t] = ZeroGuideLayer]
    /\ denoised' = [denoised EXCEPT ![t] = NullTensor]
    /\ err' = [err EXCEPT ![t] = NoError]
    /\ pc' = [pc EXCEPT ![t] = "t_intensity"]
    /\ UNCHANGED <<instVars, groupVars, devVars, img, found, normals_data, corrected_normals, issued, writes, bitmap>>

\* Lines 69-89, by thread t.
R_Intensity(t, rc) ==
    /\ pc[t] = "t_intensity"
    /\ LET input == optixImage2DfromTensor(targs[t].noisy, InputPixelFormat(targs[t].noisy))
       IN  layers' = [layers EXCEPT ![t] = [@ EXCEPT !.input = input, !.output = OutputLayer(input, ncalls[t])]]
    /\ IF jit_optix_check(rc)
       THEN /\ stream' = Append(stream, [op |-> "intensity", call |-> ncalls[t]])
            /\ issued' = Append(issued, [op |-> "intensity", call |-> ncalls[t]])
            /\ writes' = writes \cup {HdrData, ScratchData}
            /\ pc' = [pc EXCEPT ![t] = "t_invoke"]
            /\ err' = err
       ELSE /\ pc' = [pc EXCEPT ![t] = "returned"]
            /\ err' = [err EXCEPT ![t] = [kind |-> "EngineError", channel |-> ""]]
            /\ UNCHANGED <<stream, issued, writes>>
    /\ UNCHANGED <<instVars, groupVars, hdr_value, invoked>>
    /\ UNCHANGED <<ncalls, mode, img, found, targs, normals_data, corrected_normals, guide_layer, denoised, bitmap>>

\* Lines 91-124, by thread t, on an instance without guides.
R_Invoke(t, rc) ==
    /\ pc[t] = "t_invoke"
    /\ ~m_options.guideAlbedo /\ ~m_options.guideNormal /\ ~m_temporal
    /\ guide_layer' = [guide_layer EXCEPT ![t] = ZeroGuideLayer]
    /\ IF jit_optix_check(rc)
       THEN /\ stream' = Append(stream, [op |-> "invoke", call |-> ncalls[t]])
            /\ issued' = Append(issued, [op |-> "invoke", call |-> ncalls[t]])
            /\ writes' = writes \cup {layers[t].output.data, StateData, ScratchData}
            /\ pc' = [pc EXCEPT ![t] = "t_return"]
            /\ err' = err
       ELSE /\ pc' = [pc EXCEPT ![t] = "returned"]
            /\ err' = [err EXCEPT ![t] = [kind |-> "EngineError", channel |-> ""]]
            /\ UNCHANGED <<stream, issued, writes>>
    /\ UNCHANGED <<instVars, groupVars, hdr_value, invoked>>
    /\ UNCHANGED <<ncalls, mode, img, found, targs, normals_data, corrected_normals, layers, denoised, bitmap>>

\* Lines 126-127, by thread t.
R_Return(t) ==
    /\ pc[t] = "t_return"
    /\ denoised' = [denoised EXCEPT ![t] = ReturnedTensor(targs[t].noisy, ncalls[t])]
    /\ pc' = [pc EXCEPT ![t] = "returned"]
    /\ UNCHANGED <<err, instVars, groupVars, devVars>>
    /\ UNCHANGED <<ncalls, mode, img, found, targs, normals_data, corrected_normals, layers, guide_layer, issued, writes, bitmap>>

\* Line 128: the call of thread t is over.
R_CallEnds(t) ==
    /\ pc[t] = "returned"
    /\ pc' = [pc EXCEPT ![t] = "idle"]
    /\ err' = [err EXCEPT ![t] = NoError]
    /\ mode' = [mode EXCEPT ![t] = "none"]
    /\ targs' = [targs EXCEPT ![t] = NoArgs]
    /\ layers' = [layers EXCEPT ![t] = ZeroLayers]
    /\ guide_layer' = [guide_layer EXCEPT ![t] = ZeroGuideLayer]
    /\ denoised' = [denoised EXCEPT ![t] = NullTensor]
    /\ UNCHANGED <<ncalls, instVars, groupVars, devVars, img, found, normals_data, corrected_normals, issued, writes, bitmap>>

RaceNext ==
    \/ \E t \in Threads, size \in Sizes, c \in Channels : R_Call(t, size[2], size[1], c)
    \/ \E t \in Threads, rc \in OptixResults : R_Intensity(t, rc)
    \/ \E t \in Threads, rc \in OptixResults : R_Invoke(t, rc)
    \/ \E t \in Threads : R_Return(t)
    \/ \E t \in Threads : R_CallEnds(t)
    \/ Retire

RaceSpec == RaceInit /\ [][RaceNext]_vars

\* ------------------------------------------------------------ ShapeGroup
\* src/src/render/shapegroup.cpp: a constructed ShapeGroup, the calls of
\* embree_geometry() on it and its destructor, in a build with Embree. The
\* variant is the instantiation of the class: scalar and llvm run on the CPU,
\* and only llvm enqueues kernels that finish later.
Variants == {"scalar", "llvm", "cuda"}
ShapeLists == {[i \in 1..n |-> i] : n \in 0..MaxShapes}

\* The constructor (lines 7-68) leaves m_embree_scene alone: the handle has
\* the null value of its declaration, the value line 87 tests for.
GroupInit ==
    /\ err = NoError
    /\ ctor_args = [input_size |-> <<0, 0>>, albedo |-> FALSE, normals |-> FALSE, temporal |-> FALSE]
    /\ m_temporal = FALSE
    /\ m_options = [guideAlbedo |-> FALSE, guideNormal |-> FALSE]
    /\ m_denoiser = "nullptr"
    /\ m_state = "unallocated"
    /\ m_scratch = "unallocated"
    /\ m_hdr_intensity = "unallocated"
    /\ m_state_size = 0
    /\ m_scratch_size = 0
    /\ setup = <<>>
    /\ nrelease = [r \in {"m_denoiser", "m_state", "m_scratch", "m_hdr_intensity"} |-> 0]
    /\ stream = <<>>
    /\ hdr_value = 0
    /\ invoked = NoInvoke
    /\ ncalls = 0
    /\ mode = "none"
    /\ img = NoImage
    /\ found = NoFound
    /\ targs = NoArgs
    /\ normals_data = <<>>
    /\ corrected_normals = <<>>
    /\ layers = ZeroLayers
    /\ guide_layer = ZeroGuideLayer
    /\ issued = <<>>
    /\ writes = {}
    /\ denoised = NullTensor
    /\ bitmap = NoBitmap
    /\ pc = "g_idle"
    /\ variant \in Variants
    /\ m_shapes \in ShapeLists
    /\ m_embree_scene = 0
    /\ rtc = NoRtc
    /\ instances = <<>>
    /\ kernels = 0
    /\ gcalls = 0

\* dr::sync_thread() returns once every enqueued kernel has finished; it is
\* compiled in for the llvm variant only.
dr_sync_thread(k) == variant = "llvm" => k = 0

\* The thread enqueues a kernel: ray tracing between two calls, or the
\* evaluation of shape data while shape->embree_geometry() runs in the loop
\* of lines 89-93; only the llvm variant defers work.
G_Launch ==
    /\ pc \in {"g_idle", "g_attach"}
    /\ variant = "llvm"
    /\ kernels < MaxKernels
    /\ kernels' = kernels + 1
    /\ UNCHANGED <<pc, err, instVars, devVars, callVars, variant, m_shapes, m_embree_scene, rtc, instances, gcalls>>

\* An enqueued kernel finishes.
G_KernelDone ==
    /\ kernels > 0
    /\ kernels' = kernels - 1
    /\ UNCHANGED <<pc, err, instVars, devVars, callVars, variant, m_shapes, m_embree_scene, rtc, instances, gcalls>>

\* Variant: the scene is built on every call.
G_EnterAlwaysBuilds ==
    /\ pc = "g_idle"
    /\ gcalls < MaxCalls
    /\ gcalls' = gcalls + 1
    /\ IF variant = "cuda"
       THEN /\ err' = [kind |-> "CpuModeOnly", channel |-> ""]
            /\ UNCHANGED <<pc, m_embree_scene, rtc>>
       ELSE /\ err' = NoError
            /\ rtc' = [rtc EXCEPT !.scenes = @ + 1]
            /\ m_embree_scene' = rtc.scenes + 1
            /\ pc' = "g_attach"
    /\ UNCHANGED <<instVars, devVars, callVars, variant, m_shapes, instances, kernels>>

\* Lines 83-88 and 105-107: embree_geometry() is entered; it throws in the
\* cuda variant, creates the scene when there is none, and goes on to the
\* instance otherwise.
G_Enter ==
    /\ pc = "g_idle"
    /\ gcalls < MaxCalls
    /\ gcalls' = gcalls + 1
    /\ IF variant = "cuda"
       THEN /\ err' = [kind |-> "CpuModeOnly", channel |-> ""]
            /\ UNCHANGED <<pc, m_embree_scene, rtc>>
       ELSE /\ err' = NoError
            /\ IF m_embree_scene = 0
               THEN /\ rtc' = [rtc EXCEPT !.scenes = @ + 1]
                    /\ m_embree_scene' = rtc.scenes + 1
                    /\ pc' = "g_attach"
               ELSE /\ pc' = "g_instance"
                    /\ UNCHANGED <<m_embree_scene, rtc>>
    /\ UNCHANGED <<instVars, devVars, callVars, variant, m_shapes, instances, kernels>>

\* Lines 89-93: one turn of the loop attaches the geometry of the next shape
\* and releases the local handle; after the last shape the loop is left.
G_Attach ==
    /\ pc = "g_attach"
    /\ IF Len(rtc.attached) < Len(m_shapes)
       THEN /\ rtc' = [rtc EXCEPT !.attached = Append(@, m_shapes[Len(@) + 1]), !.geoms_released = @ + 1]
            /\ pc' = pc
       ELSE /\ pc' = "g_sync"
            /\ rtc' = rtc
    /\ UNCHANGED <<err, instVars, devVars, callVars, variant, m_shapes, m_embree_scene, instances, kernels, gcalls>>

\* Lines 95-97: the wait for the shape data before the build.
G_Sync ==
    /\ pc = "g_sync"
    /\ dr_sync_thread(kernels)
    /\ pc' = "g_commit"
    /\ UNCHANGED <<err, instVars, devVars, callVars, groupVars>>

\* Line 99: rtcCommitScene.
G_Commit ==
    /\ pc = "g_commit"
    /\ rtc' = [rtc EXCEPT !.commits = @ + 1, !.pending_at_commit = kernels]
    /\ pc' = "g_instance"
    /\ UNCHANGED <<err, instVars, devVars, callVars, variant, m_shapes, m_embree_scene, instances, kernels, gcalls>>

\* Lines 102-104: a new instance geometry of the scene is returned.
G_Instance ==
    /\ pc = "g_instance"
    /\ instances' = Append(instances, [id |-> Len(instances) + 1, scene |-> m_embree_scene])
    /\ pc' = "g_idle"
    /\ UNCHANGED <<err, instVars, devVars, callVars, variant, m_shapes, m_embree_scene, rtc, kernels, gcalls>>

\* Lines 70-72: the destructor is entered; it does nothing in the cuda
\* variant.
G_Dtor ==
    /\ pc = "g_idle"
    /\ pc' = IF variant = "cuda" THEN "g_destroyed" ELSE "g_dtor_sync"
    /\ UNCHANGED <<err, instVars, devVars, callVars, groupVars>>

\* Lines 73-75: the wait for the ray-tracing kernels.
G_DtorSync ==
    /\ pc = "g_dtor_sync"
    /\ dr_sync_thread(kernels)
    /\ pc' = "g_release"
    /\ UNCHANGED <<err, instVars, devVars, callVars, groupVars>>

\* Line 77: rtcReleaseScene(m_embree_scene); with a null handle no scene is
\* released.
G_Release ==
    /\ pc = "g_release"
    /\ rtc' = IF m_embree_scene # 0
              THEN [rtc EXCEPT !.releases = @ + 1, !.pending_at_release = kernels]
              ELSE [rtc EXCEPT !.null_releases = @ + 1]
    /\ pc' = "g_destroyed"
    /\ UNCHANGED <<err, instVars, devVars, callVars, variant, m_shapes, m_embree_scene, instances, kernels, gcalls>>

GroupNext ==
    \/ G_Launch
    \/ G_KernelDone
    \/ G_Enter
    \/ G_Attach
    \/ G_Sync
    \/ G_Commit
    \/ G_Instance
    \/ G_Dtor
    \/ G_DtorSync
    \/ G_Release

GroupSpec == GroupInit /\ [][GroupNext]_vars

\* ------------------------------------------------------------- the claims
AllRoles == {"noisy", "albedo", "normals", "flow", "previous_denoised"}
GuideRoles == AllRoles \ {"noisy"}
EnginePcs == {"t_intensity", "t_invoke", "t_return", "b_migrate", "b_sync"}

\* The name occurs in the sub-image list.
NameOccurs(res, n) == \E i \in 1..Len(res) : res[i].name = n
\* The first entry of the list carrying the name.
FirstEntry(res, n) == CHOOSE i \in 1..Len(res) : res[i].name = n /\ \A j \in 1..(i - 1) : res[j].name # n
\* The entry the scan bound to a role (0: none) and whether the role counts
\* as found after the scan.
BoundEntry(st, r) == IF r = "noisy" THEN st.noisy_bmp ELSE IF r = "albedo" THEN st.albedo_bmp ELSE IF r = "normals" THEN st.normals_bmp ELSE IF r = "flow" THEN st.flow_bmp ELSE st.previous_denoised_bmp
Satisfied(st, r) == IF r = "noisy" THEN st.noisy_bmp # 0 ELSE IF r = "albedo" THEN st.found_albedo ELSE IF r = "normals" THEN st.found_normals ELSE IF r = "flow" THEN st.found_flow ELSE st.found_previous_denoised

\* C1: construction fails with a configuration error exactly when normals
\* are requested without albedo; any other failure of the constructor is an
\* engine failure; and when the configuration is rejected no engine context
\* has been created, no buffer allocated and no setup performed.
C1_ConfigurationError ==
    pc # "start" =>
        /\ (err.kind = "ConfigurationError") <=> (ctor_args.normals /\ ~ctor_args.albedo)
        /\ pc = "ctor_failed" => err.kind \in {"ConfigurationError", "EngineError"}
        /\ err.kind = "ConfigurationError" =>
              /\ pc = "ctor_failed"
              /\ m_denoiser = "nullptr"
              /\ m_state = "unallocated" /\ m_scratch = "unallocated" /\ m_hdr_intensity = "unallocated"
              /\ setup = <<>>

\* C1, its case: normals without albedo were requested and construction
\* has failed with the configuration error.
C1_Witness == pc = "ctor_failed" /\ err.kind = "ConfigurationError" /\ ctor_args.normals /\ ~ctor_args.albedo /\ ctor_args.temporal

\* The roles whose channel the Bitmap lacks: the noisy channel, or a guide
\* channel asked for by a non-empty name, that no sub-image carries.
AbsentRoles == {r \in AllRoles : (r = "noisy" \/ img.req[r] # "") /\ ~NameOccurs(img.res, img.req[r])}

\* C2: a structured call fails with a missing-channel error exactly when the
\* noisy name, or a non-empty requested guide name, does not occur in the
\* sub-image list; the channel named is a requested, absent one; and the
\* failed call has reached neither the estimate nor the invocation.
C2_MissingChannel ==
    img.multichannel =>
        /\ (err.kind = "MissingChannel") <=> (AbsentRoles # {})
        /\ err.kind = "MissingChannel" =>
              /\ \E r \in AbsentRoles : err.channel = img.req[r]
              /\ pc = "returned"
              /\ issued = <<>> /\ writes = {}
              /\ layers = ZeroLayers /\ guide_layer = ZeroGuideLayer
              /\ denoised = NullTensor /\ bitmap = NoBitmap

\* C2, its case: a requested guide channel is absent while the noisy channel
\* is present, and the call has failed naming the absent channel.
C2_Witness == img.multichannel /\ err.kind = "MissingChannel" /\ err.channel = "aov" /\ img.req.flow = "aov" /\ found.noisy_bmp # 0 /\ found.found_albedo

\* C3 as stated: every role, the noisy one included, with a non-empty name
\* occurring in the list is bound to the first entry of that name; every
\* role with an empty name counts as found and stays unbound; no role is
\* bound to an entry of another name.
C3_AsStated ==
    img.multichannel =>
        \A r \in AllRoles :
            /\ (img.req[r] # "" /\ NameOccurs(img.res, img.req[r])) => BoundEntry(found, r) = FirstEntry(img.res, img.req[r])
            /\ img.req[r] = "" => (Satisfied(found, r) /\ BoundEntry(found, r) = 0)
            /\ BoundEntry(found, r) # 0 => img.res[BoundEntry(found, r)].name = img.req[r]

\* C3 amended: as stated for the four guide roles; the noisy role is bound
\* to the first entry of its name when the name occurs and is otherwise
\* unbound and not found, an empty noisy name included.
C3_Resolution ==
    img.multichannel =>
        /\ \A r \in AllRoles :
              /\ (img.req[r] # "" /\ NameOccurs(img.res, img.req[r])) => BoundEntry(found, r) = FirstEntry(img.res, img.req[r])
              /\ BoundEntry(found, r) # 0 => img.res[BoundEntry(found, r)].name = img.req[r]
        /\ \A r \in GuideRoles : img.req[r] = "" => (Satisfied(found, r) /\ BoundEntry(found, r) = 0)
        /\ ~NameOccurs(img.res, img.req.noisy) => (~Satisfied(found, "noisy") /\ err.kind = "MissingChannel" /\ err.channel = img.req.noisy)

\* C3, its case: the scan has bound the noisy role and a guide role to
\* different entries of the list and left a guide role with an empty name
\* unbound.
C3_Witness ==
    /\ img.multichannel
    /\ Len(img.res) = 2
    /\ found.noisy_bmp = 2 /\ found.albedo_bmp = 1
    /\ img.req.flow = "" /\ found.flow_bmp = 0 /\ found.found_flow
    /\ err.kind = "none"

\* The engine descriptor that carries each role of a located plane.
RoleSlot(r) == IF r = "albedo" THEN guide_layer.albedo ELSE IF r = "normals" THEN guide_layer.normal ELSE IF r = "flow" THEN guide_layer.flow ELSE IF r = "previous_denoised" THEN layers.previousOutput ELSE layers.input
\* The roles the configuration makes the engine read.
ConfiguredRoles == {"noisy"} \cup (IF m_options.guideAlbedo THEN {"albedo"} ELSE {}) \cup (IF m_options.guideNormal THEN {"normals"} ELSE {}) \cup (IF m_temporal THEN {"flow", "previous_denoised"} ELSE {})
\* The storage behind the plane located for a role; the normals reach the
\* engine through their corrected copy.
PlaneOf(r) == IF r = "normals" THEN CorrectedData ELSE LayerData(BoundEntry(found, r))

\* C4: once a structured call has invoked the engine, every located plane of
\* a configured role is in the descriptor of that role: the plane located
\* for the flow name is the flow guide, the plane located for the
\* previous-denoised name is the previous output, and likewise for noisy,
\* albedo and normals.
C4_RolePreserving ==
    (mode = "structured" /\ pc \in {"t_return", "b_migrate", "b_sync", "returned"} /\ Len(issued) >= 2) =>
        \A r \in ConfiguredRoles : BoundEntry(found, r) # 0 => RoleSlot(r).data = PlaneOf(r)

\* C5: whenever the Bitmap overload has produced its result, in either mode,
\* the call had enqueued the estimate, the invocation and the migration, in
\* that order, and nothing is left on the stream: the invocation of this call
\* has retired.
C5_BarrierBeforeHostRead ==
    bitmap # NoBitmap =>
        /\ issued = <<"intensity", "invoke", "migrate">>
        /\ stream = <<>>
        /\ invoked.call = ncalls

\* C5, its case: a structured call has returned its Bitmap.
C5_Witness == bitmap # NoBitmap /\ mode = "structured" /\ pc = "returned" /\ bitmap.data = HostData(ncalls)

\* C6: while an estimate or an invocation is still on the stream, the engine
\* context is not destroyed and none of the three buffers is freed.
C6_TeardownWaits ==
    (\E i \in 1..Len(stream) : stream[i].op \in {"intensity", "invoke"}) =>
        /\ m_denoiser # "destroyed"
        /\ m_state # "freed" /\ m_scratch # "freed" /\ m_hdr_intensity # "freed"

\* C7: no owned resource is ever released twice, and once teardown is over
\* the context has been destroyed once and each buffer freed once, so that
\* nothing the constructor acquired remains.
C7_ReleasedOnce ==
    /\ \A r \in DOMAIN nrelease : nrelease[r] <= 1
    /\ pc = "destroyed" =>
          /\ \A r \in DOMAIN nrelease : nrelease[r] = 1
          /\ m_denoiser = "destroyed"
          /\ m_state = "freed" /\ m_scratch = "freed" /\ m_hdr_intensity = "freed"

\* C7, its case: an instance that served calls has been torn down.
C7_Witness == pc = "destroyed" /\ ncalls >= 1 /\ nrelease["m_scratch"] = 1

\* The state of the instance in the lifecycle of the specification; Dead
\* stands for a process that ended (failed construction, abort).
LifecycleOf(p) ==
    IF p \in {"start", "c_create", "c_query", "c_setup"} THEN "Constructed"
    ELSE IF p \in {"idle", "returned"} \cup EnginePcs THEN "Ready"
    ELSE IF p \in {"d_free", "destroyed"} THEN "Destroyed"
    ELSE "Dead"
LifecycleSteps == {<<"Constructed", "Constructed">>, <<"Constructed", "Ready">>, <<"Constructed", "Dead">>, <<"Ready", "Ready">>, <<"Ready", "Destroyed">>, <<"Ready", "Dead">>, <<"Destroyed", "Destroyed">>, <<"Dead", "Dead">>}
\* The step enqueues an estimate or an invocation.
IssuesEngineOp == Len(stream') > Len(stream) /\ stream'[Len(stream')].op \in {"intensity", "invoke"}

\* C8: the instance only moves Constructed -> Ready -> Destroyed, with
\* Destroyed (and the end of the process) terminal; it becomes Ready only
\* with its one setup done; and an estimate or an invocation is enqueued
\* only by a Ready instance whose setup is done and whose context is live,
\* which stays Ready.
C8_Lifecycle ==
    [][/\ <<LifecycleOf(pc), LifecycleOf(pc')>> \in LifecycleSteps
       /\ LifecycleOf(pc') = "Ready" => (Len(setup') = 1 /\ m_denoiser' = "live")
       /\ IssuesEngineOp => (LifecycleOf(pc) = "Ready" /\ LifecycleOf(pc') = "Ready" /\ Len(setup) = 1 /\ m_denoiser = "live")]_vars

\* C8, its case: an instance has been set up, has invoked the engine in
\* every one of its calls and has been destroyed.
C8_Witness == pc = "destroyed" /\ ncalls = MaxCalls /\ invoked.call = MaxCalls /\ Len(setup) = 1

\* The storage of the tensors the caller passed to the tensor overload.
CallerStorage == {targs[r].data : r \in DOMAIN targs} \ {NULL}

\* C9: a tensor returned by the tensor overload has exactly the shape of the
\* noisy input and a storage that is none of the caller's.
C9_ShapeInvariant ==
    denoised # NullTensor =>
        /\ denoised.shape = targs.noisy.shape
        /\ denoised.data \notin CallerStorage
        /\ denoised.data = OutputData(ncalls)

\* C9, its case: a four-channel input denoised with albedo, normals and
\* temporal guides, whose planes have three and two channels.
C9_Witness ==
    /\ denoised # NullTensor /\ mode = "tensor"
    /\ m_options.guideAlbedo /\ m_options.guideNormal /\ m_temporal
    /\ targs.noisy.shape = <<1, 2, 4>>
    /\ guide_layer.flow.pixelStrideInBytes = 8 /\ guide_layer.albedo.pixelStrideInBytes = 12

\* C10: no step of a call changes the contents of the caller's normals, and
\* the only storage handed to the engine for writing is the fresh output,
\* the intensity scalar, the scratch and the state buffer, none of them the
\* caller's.
C10_InputsUnchanged ==
    [][/\ pc \in EnginePcs => normals_data' = normals_data
       /\ writes' \subseteq {OutputData(ncalls'), HdrData, ScratchData, StateData}
       /\ writes' \cap {targs'[r].data : r \in DOMAIN targs'} = {}]_vars

\* C10, its case: the correction has produced a copy that differs from the
\* caller's normals, which are as supplied.
C10_Witness ==
    /\ pc = "t_return" /\ mode = "tensor" /\ m_options.guideNormal
    /\ normals_data = Pattern(6)
    /\ corrected_normals = <<-1, 2, -3, -4, 5, -6>>
    /\ OutputData(ncalls) \in writes

\* What the law prescribes for element k (one-based) of an array: negated at
\* the zero-based indices 3j and 3j+2, kept at 3j+1.
LawAt(array, k) == IF (k - 1) % 3 = 1 THEN array[k] ELSE 0 - array[k]

\* C11: the correction of an array of any length negates exactly the elements
\* at the flattened indices 3k and 3k+2 and keeps those at 3k+1, and keeps the
\* length; applied to its own result it gives the original array back.
C11_CorrectionLaw ==
    /\ pc = "n_once" =>
          /\ Len(corrected_normals) = Len(normals_data)
          /\ \A k \in 1..Len(normals_data) : corrected_normals[k] = LawAt(normals_data, k)
    /\ pc = "n_twice" => corrected_normals = normals_data

\* C11, its case: an array of two normals, with non-zero components, has
\* been corrected twice.
C11_Witness == pc = "n_twice" /\ Len(normals_data) = 6 /\ (\A k \in 1..6 : normals_data[k] # 0) /\ normals_data[1] # normals_data[2] /\ corrected_normals = normals_data

\* The current call has got past its invocation without an error.
CallSucceeded == pc \in {"t_return", "b_migrate", "b_sync"} \/ (pc = "returned" /\ denoised # NullTensor)
\* The positions on the stream of the operations op of a call.
StreamOps(call, op) == {i \in 1..Len(stream) : stream[i].call = call /\ stream[i].op = op}

\* C12: a successful call has enqueued exactly one estimate and then exactly
\* one invocation; on the stream the estimate of a call is never behind its
\* invocation; and every retired invocation has read the intensity written
\* by the estimate of its own call.
C12_ExposureBeforeInvoke ==
    /\ CallSucceeded => SubSeq(issued, 1, 2) = <<"intensity", "invoke">> /\ \A i \in 3..Len(issued) : issued[i] = "migrate"
    /\ \A c \in 1..MaxCalls :
          /\ Cardinality(StreamOps(c, "intensity")) <= 1 /\ Cardinality(StreamOps(c, "invoke")) <= 1
          /\ \A i \in StreamOps(c, "intensity"), j \in StreamOps(c, "invoke") : i < j
    /\ invoked.call # 0 => invoked.hdr = invoked.call

\* C12, its case: the invocation of the last call has retired, after the
\* estimates of an earlier call and of its own, having read the intensity of
\* its own call.
C12_Witness == ncalls = MaxCalls /\ ncalls > 1 /\ invoked = [call |-> ncalls, hdr |-> ncalls] /\ hdr_value = ncalls /\ CallSucceeded

\* The position in the log of the invocation of a call, and the call of the
\* estimate enqueued last before a position (0: none).
InvokeAt(call) == CHOOSE i \in 1..Len(issued) : issued[i] = [op |-> "invoke", call |-> call]
EstimatesBefore(i) == {j \in 1..(i - 1) : issued[j].op = "intensity"}
LastEstimateBefore(i) == IF EstimatesBefore(i) = {} THEN 0 ELSE issued[CHOOSE j \in EstimatesBefore(i) : \A k \in EstimatesBefore(i) : k <= j].call
\* Thread t is inside denoise().
Inside(t) == pc[t] \in {"t_intensity", "t_invoke", "t_return"}

\* C13: with two threads calling denoise() on one instance, nothing in the
\* instance holds a call back: a thread can enter denoise(), enqueue its
\* estimate and enqueue its invocation whatever the position of the other
\* thread; and every retired invocation has read the intensity written by
\* the estimate enqueued last before it, whichever call enqueued that.
C13_NoExclusion ==
    /\ \A t \in Threads :
          /\ (pc[t] = "idle" /\ CallsStarted < MaxCalls) => ENABLED (\E size \in Sizes, c \in Channels : R_Call(t, size[2], size[1], c))
          /\ pc[t] = "t_intensity" => ENABLED R_Intensity(t, "OPTIX_SUCCESS")
          /\ pc[t] = "t_invoke" => ENABLED R_Invoke(t, "OPTIX_SUCCESS")
    /\ invoked.call # 0 => invoked.hdr = LastEstimateBefore(InvokeAt(invoked.call))

\* C13, its case: the two calls overlapped and an invocation has retired
\* having read the intensity written by the estimate of the other call.
C13_Witness ==
    /\ invoked.call # 0 /\ invoked.hdr # 0 /\ invoked.hdr # invoked.call
    /\ \E t \in Threads : ncalls[t] = invoked.call /\ pc[t] = "returned" /\ err[t] = NoError /\ denoised[t] # NullTensor
    /\ \E u \in Threads : ncalls[u] = invoked.hdr /\ Inside(u)

\* The number of times the current call has enqueued an operation.
TimesIssued(op) == Cardinality({i \in 1..Len(issued) : issued[i] = op})

\* C14: an invocation is enqueued only after the estimate of the same call
\* was enqueued, and neither is enqueued twice by a call; a call that ends
\* with an engine error has produced no tensor and no Bitmap and enqueues
\* nothing more; a constructor that failed has run no step after the failing
\* one and takes no further step.
C14_ErrorsAbort ==
    [][/\ TimesIssued("intensity")' <= 1 /\ TimesIssued("invoke")' <= 1
       /\ TimesIssued("invoke")' = 1 => (Len(issued') >= 2 /\ issued'[1] = "intensity" /\ issued'[2] = "invoke")
       /\ (pc' = "returned" /\ err'.kind = "EngineError") => (denoised' = NullTensor /\ bitmap' = NoBitmap /\ issued' \in {<<>>, <<"intensity">>})
       /\ (pc = "returned" /\ err.kind = "EngineError") => (pc' \in {"returned", "idle"} /\ Len(stream') <= Len(stream) /\ issued' \in {issued, <<>>})
       /\ (pc' = "ctor_failed" /\ err'.kind = "EngineError") =>
             /\ setup' = <<>> /\ m_hdr_intensity' = "unallocated"
             /\ m_denoiser' = "nullptr" => (m_state' = "unallocated" /\ m_scratch' = "unallocated")
             /\ stream' = <<>> /\ ncalls' = 0
       /\ pc = "ctor_failed" => pc' = "ctor_failed"]_vars

\* C14, its case: the invocation of a structured call, the second call of
\* the instance, was refused by the engine after its estimate was enqueued.
C14_Witness == pc = "returned" /\ err.kind = "EngineError" /\ mode = "structured" /\ issued = <<"intensity">> /\ ncalls = 2 /\ bitmap = NoBitmap

\* The channel count of the noisy plane the current Bitmap call denoises:
\* the Bitmap itself, or the sub-image located for the noisy name.
NoisyPlaneChannels == IF img.multichannel THEN img.res[found.noisy_bmp].ch ELSE img.channel_count
PixelFormatOf(ch) == IF ch = 3 THEN "RGB" ELSE "RGBA"

\* C15 as stated: the Bitmap returned has the resolution the instance was
\* constructed with, the channel count of the noisy plane, and the format
\* RGB for three channels and RGBA for four.
C15_AsStated ==
    bitmap # NoBitmap =>
        /\ <<bitmap.width, bitmap.height>> = ctor_args.input_size
        /\ bitmap.channel_count = NoisyPlaneChannels
        /\ bitmap.channel_count \in {3, 4} /\ bitmap.pixel_format = PixelFormatOf(bitmap.channel_count)

\* C15 amended: the Bitmap returned has the resolution of the Bitmap passed
\* in, hence the resolution of the instance exactly when the two agree; its
\* channel count is that of the noisy plane and its format RGB for three
\* channels and RGBA for four.
C15_ResultImage ==
    bitmap # NoBitmap =>
        /\ <<bitmap.width, bitmap.height>> = <<img.width, img.height>>
        /\ (<<bitmap.width, bitmap.height>> = ctor_args.input_size) <=> (<<img.width, img.height>> = ctor_args.input_size)
        /\ bitmap.channel_count = NoisyPlaneChannels
        /\ bitmap.channel_count \in {3, 4} /\ bitmap.pixel_format = PixelFormatOf(bitmap.channel_count)

\* C15, its case: a structured call on a Bitmap narrower than the instance
\* has returned a four-channel result.
C15_Witness ==
    /\ bitmap # NoBitmap /\ mode = "structured"
    /\ img.width < ctor_args.input_size[1] /\ bitmap.width = img.width
    /\ bitmap.pixel_format = "RGBA" /\ bitmap.channel_count = 4 /\ img.channel_count = 7

\* What the constructor bound: the sizes the engine reported for the
\* resolution of the instance, and the one setup made with them.
BoundSizes == ComputeMemoryResources(ctor_args.input_size[1], ctor_args.input_size[2])
BoundSetup == [x |-> ctor_args.input_size[1], y |-> ctor_args.input_size[2], state_size |-> BoundSizes.stateSizeInBytes, scratch_size |-> BoundSizes.withoutOverlapScratchSizeInBytes]
\* The buffers an enqueued estimate or invocation was given are the
\* allocated buffers of the instance with the sizes bound at setup.
GivenBoundBuffers(o, bound) ==
    /\ o.buffers.hdr = "allocated" /\ o.buffers.scratch = "allocated" /\ o.buffers.scratch_size = bound.scratch_size
    /\ o.op = "invoke" => (o.buffers.state = "allocated" /\ o.buffers.state_size = bound.state_size)

\* C16: setup is performed at most once, and once exactly for an instance
\* that exists, with the sizes the engine reported for the resolution of the
\* instance; every estimate and every invocation is given the allocated
\* state, scratch and intensity buffers with the sizes bound at setup; and no
\* step of a denoise call changes a buffer, a size or the setup.
C16_StableBinding ==
    [][/\ Len(setup') <= 1
       /\ pc' \in {"idle", "returned"} \cup EnginePcs => (setup' = <<BoundSetup'>> /\ m_state_size' = BoundSizes'.stateSizeInBytes /\ m_scratch_size' = BoundSizes'.withoutOverlapScratchSizeInBytes)
       /\ \A i \in 1..Len(stream') : stream'[i].op \in {"intensity", "invoke"} => GivenBoundBuffers(stream'[i], BoundSetup')
       /\ (pc \in {"idle", "returned"} \cup EnginePcs /\ pc' \in {"idle", "returned", "crashed"} \cup EnginePcs) => UNCHANGED instVars]_vars

\* C16, its case: the invocation of a later call is on the stream with the
\* buffers bound at construction, after an earlier call was served.
C16_Witness ==
    /\ ncalls = MaxCalls /\ ncalls > 1 /\ stream # <<>>
    /\ stream[Len(stream)].op = "invoke" /\ stream[Len(stream)].call = ncalls
    /\ stream[Len(stream)].buffers = [hdr |-> "allocated", state |-> "allocated", state_size |-> 2 * MaxDim, scratch |-> "allocated", scratch_size |-> MaxDim]
    /\ setup = <<BoundSetup>>

\* The scan without its break: the body of the loop applied to every entry
\* of the list, from entry i on.
RECURSIVE ScanEvery(_, _, _, _)
ScanEvery(res, req, i, st) == IF i > Len(res) THEN st ELSE ScanEvery(res, req, i + 1, ScanEntry(st, res[i].name, i, req))
\* The number of entries the scan with the break has visited.
RECURSIVE Visited(_, _, _, _)
Visited(res, req, i, st) == IF i > Len(res) \/ ScanComplete(st) THEN i - 1 ELSE Visited(res, req, i + 1, ScanEntry(st, res[i].name, i, req))

\* C17: for every sub-image list, lists with repeated names included, and
\* every choice of names, the scan with the break leaves the bindings and
\* found flags that the scan of every entry leaves, and the call fails with a
\* missing channel, and names the channel, exactly as it would after the scan
\* of every entry.
C17_EarlyStopRefines ==
    img.multichannel =>
        LET every == ScanEvery(img.res, img.req, 1, ScanInit(img.req))
        IN  /\ found = every
            /\ MissingChannel(found, img.req) = MissingChannel(every, img.req)
            /\ (err.kind = "MissingChannel") <=> MissingChannel(every, img.req).missing
            /\ err.kind = "MissingChannel" => err.channel = MissingChannel(every, img.req).channel

\* C17, its case: the scan stopped before the last entry of a list whose
\* entries carry the same name, which two roles requested.
C17_Witness ==
    /\ img.multichannel /\ Len(img.res) = 2
    /\ Visited(img.res, img.req, 1, ScanInit(img.req)) = 1
    /\ img.res[1].name = img.res[2].name
    /\ img.req.noisy = img.res[2].name /\ img.req.albedo = img.res[2].name
    /\ found.noisy_bmp = 1 /\ found.albedo_bmp = 1
    /\ err.kind = "none"

\* C18: in a call of the Bitmap overload that has got past the channel
\* resolution and reached the tensor overload, every tensor the configuration
\* makes the tensor overload read is non-null.
C18_NoAbsentInputRead ==
    (mode \in {"simple", "structured"} /\ pc \in {"t_intensity", "t_invoke"}) =>
        \A r \in RequiredRoles : targs[r] # NullTensor

\* C19: when the constructor has failed, no engine context is live and no
\* device buffer is allocated: whatever it had acquired has been released.
C19_FailedConstructionReleases ==
    pc = "ctor_failed" =>
        /\ m_denoiser \in {"nullptr", "destroyed"}
        /\ m_state \in {"unallocated", "freed"}
        /\ m_scratch \in {"unallocated", "freed"}
        /\ m_hdr_intensity \in {"unallocated", "freed"}

\* The storage of every descriptor handed to the engine by the invocation.
DescriptorStorage == {layers.input.data, layers.output.data, layers.previousOutput.data, guide_layer.albedo.data, guide_layer.normal.data, guide_layer.flow.data}
\* The storage of the tensors passed for the roles the instance is configured
\* for, the noisy input included.
ConfiguredStorage == {targs[q].data : q \in ConfiguredRoles}
\* The current call has enqueued its invocation.
InvocationIssued == TimesIssued("invoke") = 1

\* C20: in every invocation the descriptor of a guide role the instance is
\* not configured for is left zero, and the storage of a tensor passed for
\* such a role is in no descriptor, unless a configured role was passed the
\* same storage; the descriptor of a configured role whose
\* tensor was passed is filled from that tensor (the normals from their
\* corrected copy). Calls that pass no tensor for a configured role are the
\* matter of C18.
C20_GuidesFollowConfiguration ==
    InvocationIssued =>
        /\ \A r \in GuideRoles \ ConfiguredRoles :
              /\ RoleSlot(r) = ZeroImage
              /\ targs[r] # NullTensor => targs[r].data \notin (DescriptorStorage \ ConfiguredStorage)
        /\ \A r \in GuideRoles \cap ConfiguredRoles :
              targs[r] # NullTensor => (RoleSlot(r) # ZeroImage /\ RoleSlot(r).data = IF r = "normals" THEN CorrectedData ELSE targs[r].data)

\* C20, its case: an instance configured for albedo only has invoked the
\* engine in a call that was also passed normals and flow.
C20_Witness ==
    /\ InvocationIssued /\ mode = "tensor"
    /\ m_options.guideAlbedo /\ ~m_options.guideNormal /\ ~m_temporal
    /\ targs.normals # NullTensor /\ targs.flow # NullTensor /\ targs.previous_denoised = NullTensor
    /\ guide_layer.albedo.data = ArgData("albedo") /\ guide_layer.normal = ZeroImage /\ guide_layer.flow = ZeroImage

\* The variant runs on the CPU, where embree_geometry() builds a scene.
CpuVariant == variant \in {"scalar", "llvm"}
\* A call of embree_geometry() is under way.
Building == pc \in {"g_attach", "g_sync", "g_commit", "g_instance"}

\* C21: on a CPU variant, over any sequence of embree_geometry() calls, one
\* scene is created, by the first call, and committed once, holding the
\* shapes of the group, after the wait for the enqueued kernels; the handle
\* of the scene never changes; every call returns one new instance geometry
\* of that committed scene; and the scene is released once, by the
\* destructor only, after the wait for the enqueued kernels, the destructor
\* being final. On the cuda variant every call throws and no scene exists.
C21_BuildOnce ==
    [][/\ rtc'.scenes <= 1 /\ rtc'.commits <= rtc'.scenes
       /\ (rtc'.scenes = 1) <=> (CpuVariant' /\ gcalls' >= 1)
       /\ rtc'.commits = 1 => (rtc'.attached = m_shapes' /\ rtc'.geoms_released = Len(m_shapes') /\ rtc'.pending_at_commit = 0)
       /\ m_embree_scene # 0 => m_embree_scene' = m_embree_scene
       /\ SubSeq(instances', 1, Len(instances)) = instances
       /\ \A i \in 1..Len(instances') : instances'[i].id = i /\ instances'[i].scene = m_embree_scene' /\ instances'[i].scene # 0 /\ rtc'.commits = 1
       /\ CpuVariant' => Len(instances') = (IF Building' THEN gcalls' - 1 ELSE gcalls')
       /\ ~CpuVariant' => (rtc' = NoRtc /\ instances' = <<>> /\ m_embree_scene' = 0 /\ (gcalls' >= 1 => err'.kind = "CpuModeOnly"))
       /\ rtc'.releases <= 1
       /\ rtc'.releases = 1 => (pc' = "g_destroyed" /\ rtc'.pending_at_release = 0 /\ rtc'.scenes = 1)
       /\ pc = "g_destroyed" => pc' = "g_destroyed"]_vars

\* C21, its case: a group of several shapes on the llvm variant has served
\* every call with kernels enqueued in between and has been destroyed.
C21_Witness ==
    /\ pc = "g_destroyed" /\ variant = "llvm"
    /\ gcalls = MaxCalls /\ gcalls > 1 /\ Len(instances) = MaxCalls
    /\ Len(m_shapes) = MaxShapes /\ rtc.attached = m_shapes
    /\ rtc.scenes = 1 /\ rtc.commits = 1 /\ rtc.releases = 1
    /\ instances[1].scene = instances[MaxCalls].scene /\ instances[1].id # instances[MaxCalls].id

====
